---- MODULE Spec2Model ----
(***************************************************************************)
(* Model of openai_dive/src/v1/endpoints/audio.rs: the Audio handle, its   *)
(* request converter, and the four operations create_speech,               *)
(* create_transcription, create_translation and create_speech_stream.      *)
(* The transport (post_raw, post_with_form, post_stream_raw) and the file  *)
(* resolver (into_part) are the environment: each answers Ok or Err.       *)
(***************************************************************************)
EXTENDS Integers, Sequences, FiniteSets, TLC

VARIABLES live, request_converter, lastCfg, pc, call, trace, form, sent,
          responses, result, source, srcPos, out, ended

vars == <<live, request_converter, lastCfg, pc, call, trace, form, sent,
          responses, result, source, srcPos, out, ended>>

----------------------------------------------------------------------------
(* Bounds *)

MaxHandles == 2
MaxSrcLen == 3
MaxGran == 2
MaxTemperature == 1
MaxSpeed == 1

----------------------------------------------------------------------------
(* Option<T> and Result<T, E> *)

None == {}
Some(x) == {x}
Option(S) == {None} \cup {Some(x) : x \in S}

Ok(x) == [ok |-> {x}, err |-> {}]
Err(e) == [ok |-> {}, err |-> {e}]
IsOk(r) == r.ok # {}
IsErr(r) == r.err # {}
Unwrap(r) == CHOOSE x \in r.ok : TRUE
UnwrapErr(r) == CHOOSE e \in r.err : TRUE
Get(o) == CHOOSE x \in o : TRUE

----------------------------------------------------------------------------
(* serde_json::Value *)

JNull == <<"null">>
JBool(b) == <<"bool", b>>
JNum(n) == <<"number", n>>
JStr(s) == <<"string", s>>
JArr(a) == <<"array", a>>
JObj(f) == <<"object", f>>

IsObject(v) == v[1] = "object"
IsScalar(v) == v[1] \in {"null", "bool", "number", "string"}

\* serde_json's Map iterates its keys in sorted order
KeyOrder == <<"k1", "k2", "prompt">>

KeysOf(f) == SelectSeq(KeyOrder, LAMBDA k : k \in DOMAIN f)

RECURSIVE JoinWith(_, _)
JoinWith(strs, sep) ==
    IF Len(strs) = 0 THEN ""
    ELSE IF Len(strs) = 1 THEN strs[1]
    ELSE strs[1] \o sep \o JoinWith(Tail(strs), sep)

BoolToString(b) == IF b THEN "true" ELSE "false"

\* Display of serde_json::Value: compact JSON text
RECURSIVE ValueToString(_)
ValueToString(v) ==
    CASE v[1] = "null" -> "null"
      [] v[1] = "bool" -> BoolToString(v[2])
      [] v[1] = "number" -> ToString(v[2])
      [] v[1] = "string" -> "\"" \o v[2] \o "\""
      [] v[1] = "array" ->
            "[" \o JoinWith([i \in 1..Len(v[2]) |-> ValueToString(v[2][i])], ",") \o "]"
      [] v[1] = "object" ->
            LET ks == KeysOf(v[2])
            IN "{" \o JoinWith([i \in 1..Len(ks) |->
                        "\"" \o ks[i] \o "\":" \o ValueToString(v[2][ks[i]])], ",") \o "}"

----------------------------------------------------------------------------
(* Errors *)

BadRequestError(msg) == <<"BadRequestError", msg>>
ParseError(msg) == <<"ParseError", msg>>

ExtraBodyMessage == "extra_body must be formatted as a map of key: value"

FileErrors == {<<"FileError", "No such file">>}
TransportErrors == {<<"ServerError", "500">>}
StreamErrors == {<<"StreamError", "reset">>}

----------------------------------------------------------------------------
(* Typed parameters (crate::v1::resources::audio) *)

Handles == 1..MaxHandles

\* canonical string form (Display / serde rename) of the enum-valued fields
DisplayString(variant) ==
    CASE variant = "Alloy" -> "alloy"
      [] variant = "Nova" -> "nova"
      [] variant = "Mp3" -> "mp3"
      [] variant = "VerboseJson" -> "verbose_json"
      [] variant = "Auto" -> "auto"
      [] variant = "Word" -> "word"
      [] variant = "Segment" -> "segment"
      [] OTHER -> variant

AudioSpeechParameters ==
    [model : {"tts-1"}, input : {"hi"}, voice : {"Nova"},
     voice_text : Option({"sample"}), response_format : Option({"Mp3"}),
     speed : Option(1..MaxSpeed)]

Granularities == {"Word", "Segment"}

GranularityLists == UNION {[1..n -> Granularities] : n \in 0..MaxGran}

ExtraKeys == {"k1", "prompt"}

ExtraValues == {JStr("x"), JNum(7), JArr(<<JBool(TRUE), JNull>>), JObj("k1" :> JNum(1))}

ExtraObjects == {JObj(f) : f \in UNION {[ks -> ExtraValues] : ks \in SUBSET ExtraKeys}}

ExtraBodies == {JNull, JBool(FALSE), JNum(7), JStr("x"), JArr(<<JNum(1)>>)} \cup ExtraObjects

AudioTranscriptionParameters ==
    [file : {"audio.wav"}, model : {"whisper-1"},
     prompt : Option({"hello"}), language : Option({"en"}),
     chunking_strategy : Option({"Auto"}), response_format : Option({"VerboseJson"}),
     stream : Option(BOOLEAN), temperature : Option(0..MaxTemperature),
     timestamp_granularities : Option(GranularityLists),
     extra_body : Option(ExtraBodies)]

AudioTranslationParameters ==
    [file : {"audio.wav"}, model : {"whisper-1"},
     prompt : Option({"hello"}), response_format : Option({"VerboseJson"}),
     temperature : Option(0..MaxTemperature)]

\* the inputs the client-level specification draws for the multipart operations
TranscriptionSamples ==
    [file : {"audio.wav"}, model : {"whisper-1"},
     prompt : Option({"hello"}), language : {None},
     chunking_strategy : {None}, response_format : {None},
     stream : {None}, temperature : {None},
     timestamp_granularities : {None},
     extra_body : {None, Some(JNum(7)), Some(JObj("k1" :> JStr("x")))}]

TranslationSamples ==
    [file : {"audio.wav"}, model : {"whisper-1"},
     prompt : Option({"hello"}), response_format : {None}, temperature : {None}]

----------------------------------------------------------------------------
(* Request converter: Box<dyn Fn(&Value) -> Value> *)

Converters == {"add_marker", "rename_input"}

Without(f, k) == [x \in (DOMAIN f) \ {k} |-> f[x]]

ApplyConverter(c, v) ==
    CASE c = "add_marker" -> JObj(("marker" :> JBool(TRUE)) @@ v[2])
      [] c = "rename_input" -> JObj(("text" :> v[2]["input"]) @@ Without(v[2], "input"))

OptField(name, o) == IF o = None THEN <<>> ELSE (name :> Get(o))

\* serde_json::to_value(&parameters): the canonical JSON of the parameters
to_value(p) ==
    Ok(JObj(("model" :> JStr(p.model)) @@ ("input" :> JStr(p.input))
            @@ ("voice" :> JStr(DisplayString(p.voice)))
            @@ OptField("voice_text", {JStr(x) : x \in p.voice_text})
            @@ OptField("response_format",
                        {JStr(DisplayString(x)) : x \in p.response_format})
            @@ OptField("speed", {JNum(x) : x \in p.speed})))

TypedBody(p) == [kind |-> "typed", val |-> p]
JsonBody(v) == [kind |-> "json", val |-> v]
FormBody(f) == [kind |-> "form", val |-> f]

Request(prim, path, body) == [prim |-> prim, path |-> path, body |-> body]

----------------------------------------------------------------------------
(* reqwest::multipart::Form *)

FilePart(name, part) == [name |-> name, kind |-> "binary", value |-> part.filename]
TextPart(name, value) == [name |-> name, kind |-> "text", value |-> value]

\* variant: an unset field is sent as an empty-string part
TextIfSome_Placeholder(f, name, o) ==
    Append(f, TextPart(name, IF o = None THEN "" ELSE Get(o)))

\* `if let Some(x) = field { form = form.text(name, x.to_string()) }`, o being
\* the field already turned into its string
TextIfSome(f, name, o) ==
    IF o = None THEN f ELSE Append(f, TextPart(name, Get(o)))

GranularitiesToString(l) == JoinWith([i \in 1..Len(l) |-> DisplayString(l[i])], ",")

\* lines 73-110: the parts added before extra_body is looked at
TranscriptionFields(p, part) ==
    LET f0 == <<FilePart("file", part)>>
        f1 == Append(f0, TextPart("model", p.model))
        f2 == TextIfSome(f1, "prompt", p.prompt)
        f3 == TextIfSome(f2, "language", p.language)
        f4 == TextIfSome(f3, "chunking_strategy",
                         {DisplayString(x) : x \in p.chunking_strategy})
        f5 == TextIfSome(f4, "response_format",
                         {DisplayString(x) : x \in p.response_format})
        f6 == TextIfSome(f5, "stream", {BoolToString(x) : x \in p.stream})
        f7 == TextIfSome(f6, "temperature", {ToString(x) : x \in p.temperature})
    IN TextIfSome(f7, "timestamp_granularities",
                  {GranularitiesToString(x) : x \in p.timestamp_granularities})

\* lines 114-118: `for (key, value) in map { form = form.text(key, value.to_string()) }`
ExtraParts(map) ==
    LET ks == KeysOf(map)
    IN [i \in 1..Len(ks) |-> TextPart(ks[i], ValueToString(map[ks[i]]))]

\* variant: an extra_body that is not an object is skipped instead of rejected
WithExtraBody_Lenient(f, extra_body) ==
    IF extra_body = None THEN Ok(f)
    ELSE IF IsObject(Get(extra_body)) THEN Ok(f \o ExtraParts(Get(extra_body)[2]))
    ELSE Ok(f)

\* variant: an object is accepted only when all its values are scalars
WithExtraBody_Flat(f, extra_body) ==
    IF extra_body = None THEN Ok(f)
    ELSE IF /\ IsObject(Get(extra_body))
            /\ \A k \in DOMAIN Get(extra_body)[2] : IsScalar(Get(extra_body)[2][k])
         THEN Ok(f \o ExtraParts(Get(extra_body)[2]))
    ELSE Err(BadRequestError(ExtraBodyMessage))

\* lines 112-125: Ok(form with the extra parts) or the BadRequestError
WithExtraBody(f, extra_body) ==
    IF extra_body = None THEN Ok(f)
    ELSE IF IsObject(Get(extra_body)) THEN Ok(f \o ExtraParts(Get(extra_body)[2]))
    ELSE Err(BadRequestError(ExtraBodyMessage))

\* lines 143-157
TranslationFields(p, part) ==
    LET f0 == <<FilePart("file", part)>>
        f1 == Append(f0, TextPart("model", p.model))
        f2 == TextIfSome(f1, "prompt", p.prompt)
        f3 == TextIfSome(f2, "response_format",
                         {DisplayString(x) : x \in p.response_format})
    IN TextIfSome(f3, "temperature", {ToString(x) : x \in p.temperature})

\* variant: voice_text is carried over from the caller's parameters
stream_parameters_Keep(p) ==
    [model |-> p.model, input |-> p.input, voice |-> p.voice, voice_text |-> p.voice_text,
     response_format |-> p.response_format, speed |-> p.speed, stream |-> TRUE]

\* lines 178-186
stream_parameters(p) ==
    [model |-> p.model, input |-> p.input, voice |-> p.voice, voice_text |-> None,
     response_format |-> p.response_format, speed |-> p.speed, stream |-> TRUE]

\* variant: a source error is turned into an empty chunk
MapItem_Swallow(item) == IF IsOk(item) THEN Ok([bytes |-> Unwrap(item)]) ELSE Ok([bytes |-> ""])

\* line 193: item.map(|bytes| AudioSpeechResponseChunkResponse { bytes })
MapItem(item) == IF IsOk(item) THEN Ok([bytes |-> Unwrap(item)]) ELSE item

----------------------------------------------------------------------------
(* Environment answers *)

RawItems == {Ok("b1"), Ok("b2")} \cup {Err(e) : e \in StreamErrors}

\* what the source returned by post_stream_raw will produce, then it ends
Sources == UNION {[1..n -> RawItems] : n \in 0..MaxSrcLen}

FileResults == {Ok([filename |-> "audio.wav"])} \cup {Err(e) : e \in FileErrors}
RawResults == {Ok("mp3-bytes")} \cup {Err(e) : e \in TransportErrors}
TextResults == {Ok("transcript")} \cup {Err(e) : e \in TransportErrors}
StreamResults == {Ok(src) : src \in Sources} \cup {Err(e) : e \in TransportErrors}

Response(from, res) == [from |-> from, res |-> res]

NoCall == [op |-> "none", h |-> 0, params |-> <<>>]

----------------------------------------------------------------------------
(* State *)

Idle ==
    /\ pc = "idle"
    /\ call = NoCall
    /\ trace = <<>>
    /\ form = <<>>
    /\ sent = <<>>
    /\ responses = <<>>
    /\ result = None
    /\ source = <<>>
    /\ srcPos = 0
    /\ out = <<>>
    /\ ended = FALSE

Init ==
    /\ live = {}
    /\ request_converter = [h \in Handles |-> None]
    /\ lastCfg = [h \in Handles |-> "unborn"]
    /\ Idle

handleVars == <<live, request_converter, lastCfg>>
streamVars == <<source, srcPos, out, ended>>
callVars == <<pc, call, trace, form, sent, responses, result>>

----------------------------------------------------------------------------
(* Client::audio and Audio::set_request_converter *)

\* lines 25-30: a new handle is bound to slot h
ClientAudio(h) ==
    /\ pc = "idle"
    /\ live' = live \cup {h}
    /\ request_converter' = [request_converter EXCEPT ![h] = None]
    /\ lastCfg' = [lastCfg EXCEPT ![h] = "audio"]
    /\ UNCHANGED <<callVars, streamVars>>

\* variant: the converter is stored for every handle of the client
SetRequestConverter_Shared(h, converter) ==
    /\ pc = "idle"
    /\ h \in live
    /\ request_converter' = [g \in Handles |-> IF g \in live THEN Some(converter) ELSE None]
    /\ lastCfg' = [lastCfg EXCEPT ![h] = converter]
    /\ UNCHANGED <<live, callVars, streamVars>>

\* lines 36-42
SetRequestConverter(h, converter) ==
    /\ pc = "idle"
    /\ h \in live
    /\ request_converter' = [request_converter EXCEPT ![h] = Some(converter)]
    /\ lastCfg' = [lastCfg EXCEPT ![h] = converter]
    /\ UNCHANGED <<live, callVars, streamVars>>

----------------------------------------------------------------------------
(* Audio::create_speech, lines 44-62 *)

\* variant: the parameters are posted as they are, converter or not (line 59)
CreateSpeech_Direct(h, parameters) ==
    /\ pc = "idle"
    /\ h \in live
    /\ call' = [op |-> "create_speech", h |-> h, params |-> parameters]
    /\ trace' = <<"post_raw">>
    /\ sent' = <<Request("post_raw", "/audio/speech", TypedBody(parameters))>>
    /\ result' = None
    /\ pc' = "speech_post"
    /\ UNCHANGED <<handleVars, streamVars, form, responses>>

CreateSpeech(h, parameters) ==
    /\ pc = "idle"
    /\ h \in live
    /\ call' = [op |-> "create_speech", h |-> h, params |-> parameters]
    /\ IF request_converter[h] # None
       THEN LET params_value == to_value(parameters)
            IN IF IsErr(params_value)
               THEN /\ trace' = <<"to_value">>
                    /\ sent' = <<>>
                    /\ result' = Some(Err(ParseError("serialize")))
                    /\ pc' = "done"
               ELSE LET converted_params ==
                            ApplyConverter(Get(request_converter[h]), Unwrap(params_value))
                    IN /\ trace' = <<"to_value", "converter", "post_raw">>
                       /\ sent' = <<Request("post_raw", "/audio/speech",
                                            JsonBody(converted_params))>>
                       /\ result' = None
                       /\ pc' = "speech_post"
       ELSE /\ trace' = <<"post_raw">>
            /\ sent' = <<Request("post_raw", "/audio/speech", TypedBody(parameters))>>
            /\ result' = None
            /\ pc' = "speech_post"
    /\ UNCHANGED <<handleVars, streamVars, form, responses>>

\* lines 53-61: post_raw(..).await? and Ok(AudioSpeechResponse { bytes })
SpeechPosted(r) ==
    /\ pc = "speech_post"
    /\ responses' = Append(responses, Response("post_raw", r))
    /\ result' = Some(IF IsErr(r) THEN r ELSE Ok([bytes |-> Unwrap(r)]))
    /\ pc' = "done"
    /\ UNCHANGED <<handleVars, streamVars, call, trace, form, sent>>

----------------------------------------------------------------------------
(* Audio::create_transcription, lines 65-133 *)

\* lines 69-71: Form::new() and parameters.file.into_part()
CreateTranscription(h, parameters) ==
    /\ pc = "idle"
    /\ h \in live
    /\ call' = [op |-> "create_transcription", h |-> h, params |-> parameters]
    /\ trace' = <<"into_part">>
    /\ pc' = "transcription_file"
    /\ UNCHANGED <<handleVars, streamVars, form, sent, responses, result>>

\* variant: extra_body is validated before the file resolver's answer is looked at
TranscriptionFileResolved_ValidateFirst(r) ==
    /\ pc = "transcription_file"
    /\ responses' = Append(responses, Response("into_part", r))
    /\ IF call.params.extra_body # None /\ ~IsObject(Get(call.params.extra_body))
       THEN /\ result' = Some(Err(BadRequestError(ExtraBodyMessage)))
            /\ pc' = "done"
            /\ UNCHANGED <<form, sent, trace>>
       ELSE IF IsErr(r)
       THEN /\ result' = Some(r)
            /\ pc' = "done"
            /\ UNCHANGED <<form, sent, trace>>
       ELSE LET built == TranscriptionFields(call.params, Unwrap(r))
                           \o ExtraParts(IF call.params.extra_body = None THEN <<>>
                                         ELSE Get(call.params.extra_body)[2])
            IN /\ form' = built
               /\ trace' = Append(trace, "post_with_form")
               /\ sent' = <<Request("post_with_form", "/audio/transcriptions",
                                    FormBody(built))>>
               /\ pc' = "transcription_post"
               /\ UNCHANGED result
    /\ UNCHANGED <<handleVars, streamVars, call>>

\* lines 71-129: into_part answered; the form is built and handed to post_with_form
TranscriptionFileResolved(r) ==
    /\ pc = "transcription_file"
    /\ responses' = Append(responses, Response("into_part", r))
    /\ IF IsErr(r)
       THEN /\ result' = Some(r)
            /\ pc' = "done"
            /\ UNCHANGED <<form, sent, trace>>
       ELSE LET fields == TranscriptionFields(call.params, Unwrap(r))
                built == WithExtraBody(fields, call.params.extra_body)
            IN IF IsErr(built)
               THEN /\ form' = fields
                    /\ result' = Some(built)
                    /\ pc' = "done"
                    /\ UNCHANGED <<sent, trace>>
               ELSE /\ form' = Unwrap(built)
                    /\ trace' = Append(trace, "post_with_form")
                    /\ sent' = <<Request("post_with_form", "/audio/transcriptions",
                                         FormBody(Unwrap(built)))>>
                    /\ pc' = "transcription_post"
                    /\ UNCHANGED result
    /\ UNCHANGED <<handleVars, streamVars, call>>

\* lines 127-132
TranscriptionPosted(r) ==
    /\ pc = "transcription_post"
    /\ responses' = Append(responses, Response("post_with_form", r))
    /\ result' = Some(r)
    /\ pc' = "done"
    /\ UNCHANGED <<handleVars, streamVars, call, trace, form, sent>>

----------------------------------------------------------------------------
(* Audio::create_translation, lines 136-165 *)

CreateTranslation(h, parameters) ==
    /\ pc = "idle"
    /\ h \in live
    /\ call' = [op |-> "create_translation", h |-> h, params |-> parameters]
    /\ trace' = <<"into_part">>
    /\ pc' = "translation_file"
    /\ UNCHANGED <<handleVars, streamVars, form, sent, responses, result>>

TranslationFileResolved(r) ==
    /\ pc = "translation_file"
    /\ responses' = Append(responses, Response("into_part", r))
    /\ IF IsErr(r)
       THEN /\ result' = Some(r)
            /\ pc' = "done"
            /\ UNCHANGED <<form, sent, trace>>
       ELSE LET fields == TranslationFields(call.params, Unwrap(r))
            IN /\ form' = fields
               /\ trace' = Append(trace, "post_with_form")
               /\ sent' = <<Request("post_with_form", "/audio/translations",
                                    FormBody(fields))>>
               /\ pc' = "translation_post"
               /\ UNCHANGED result
    /\ UNCHANGED <<handleVars, streamVars, call>>

TranslationPosted(r) ==
    /\ pc = "translation_post"
    /\ responses' = Append(responses, Response("post_with_form", r))
    /\ result' = Some(r)
    /\ pc' = "done"
    /\ UNCHANGED <<handleVars, streamVars, call, trace, form, sent>>

----------------------------------------------------------------------------
(* Audio::create_speech_stream, lines 169-197 *)

\* lines 178-190: the streaming parameters are built and handed to post_stream_raw
CreateSpeechStream(h, parameters) ==
    /\ pc = "idle"
    /\ h \in live
    /\ call' = [op |-> "create_speech_stream", h |-> h, params |-> parameters]
    /\ trace' = <<"post_stream_raw">>
    /\ sent' = <<Request("post_stream_raw", "/audio/speech",
                         TypedBody(stream_parameters(parameters)))>>
    /\ pc' = "stream_post"
    /\ UNCHANGED <<handleVars, streamVars, form, responses, result>>

\* lines 188-196: `.await.unwrap()` panics on Err; on Ok the mapped stream is returned
StreamPosted(r) ==
    /\ pc = "stream_post"
    /\ responses' = Append(responses, Response("post_stream_raw", r))
    /\ IF IsErr(r)
       THEN /\ pc' = "panicked"
            /\ UNCHANGED <<result, source>>
       ELSE /\ source' = Unwrap(r)
            /\ result' = Some(Ok("stream"))
            /\ pc' = "streaming"
    /\ UNCHANGED <<handleVars, call, trace, form, sent, srcPos, out, ended>>

\* variant: the stream is fused on the first Err element
PollNext_Fused ==
    /\ pc = "streaming"
    /\ IF srcPos < Len(source) /\ ~(\E i \in 1..Len(out) : IsErr(out[i]))
       THEN /\ srcPos' = srcPos + 1
            /\ out' = Append(out, MapItem(source[srcPos + 1]))
            /\ UNCHANGED ended
       ELSE /\ ended' = TRUE
            /\ UNCHANGED <<srcPos, out>>
    /\ UNCHANGED <<handleVars, callVars, source>>

\* line 193: one poll of the returned stream polls the source once and maps its item
PollNext ==
    /\ pc = "streaming"
    /\ IF srcPos < Len(source)
       THEN /\ srcPos' = srcPos + 1
            /\ out' = Append(out, MapItem(source[srcPos + 1]))
            /\ UNCHANGED ended
       ELSE /\ ended' = TRUE
            /\ UNCHANGED <<srcPos, out>>
    /\ UNCHANGED <<handleVars, callVars, source>>

ResetCall ==
    /\ pc' = "idle"
    /\ call' = NoCall
    /\ trace' = <<>>
    /\ form' = <<>>
    /\ sent' = <<>>
    /\ responses' = <<>>
    /\ result' = None
    /\ source' = <<>>
    /\ srcPos' = 0
    /\ out' = <<>>
    /\ ended' = FALSE

\* the caller drops the stream
DropStream ==
    /\ pc = "streaming"
    /\ ResetCall
    /\ UNCHANGED handleVars

\* the caller takes the Result of the finished call
Return ==
    /\ pc = "done"
    /\ ResetCall
    /\ UNCHANGED handleVars

----------------------------------------------------------------------------
(* Specifications *)

Next ==
    \/ \E h \in Handles : ClientAudio(h)
    \/ \E h \in Handles, c \in Converters : SetRequestConverter(h, c)
    \/ pc = "idle" /\ \E h \in Handles, p \in AudioSpeechParameters : CreateSpeech(h, p)
    \/ \E r \in RawResults : SpeechPosted(r)
    \/ pc = "idle" /\ \E h \in Handles, p \in TranscriptionSamples : CreateTranscription(h, p)
    \/ \E r \in FileResults : TranscriptionFileResolved(r)
    \/ \E r \in TextResults : TranscriptionPosted(r)
    \/ pc = "idle" /\ \E h \in Handles, p \in TranslationSamples : CreateTranslation(h, p)
    \/ \E r \in FileResults : TranslationFileResolved(r)
    \/ \E r \in TextResults : TranslationPosted(r)
    \/ pc = "idle" /\ \E h \in Handles, p \in AudioSpeechParameters : CreateSpeechStream(h, p)
    \/ \E r \in StreamResults : StreamPosted(r)
    \/ PollNext
    \/ DropStream
    \/ Return

Spec == Init /\ [][Next]_vars

\* the multipart encoder under every combination of its inputs, on one plain handle
InitMultipart ==
    /\ live = {1}
    /\ request_converter = [h \in Handles |-> None]
    /\ lastCfg = [h \in Handles |-> IF h = 1 THEN "audio" ELSE "unborn"]
    /\ Idle

NextMultipart ==
    \/ pc = "idle" /\ \E p \in AudioTranscriptionParameters : CreateTranscription(1, p)
    \/ \E r \in FileResults : TranscriptionFileResolved(r)
    \/ \E r \in TextResults : TranscriptionPosted(r)
    \/ pc = "idle" /\ \E p \in AudioTranslationParameters : CreateTranslation(1, p)
    \/ \E r \in FileResults : TranslationFileResolved(r)
    \/ \E r \in TextResults : TranslationPosted(r)
    \/ Return

SpecMultipart == InitMultipart /\ [][NextMultipart]_vars

----------------------------------------------------------------------------
(* Properties of the multipart operations *)

Malformed(p) == p.extra_body # None /\ ~IsObject(Get(p.extra_body))

HasNonScalar(p) ==
    /\ p.extra_body # None
    /\ IsObject(Get(p.extra_body))
    /\ \E k \in DOMAIN Get(p.extra_body)[2] : ~IsScalar(Get(p.extra_body)[2][k])

InTranscription == call.op = "create_transcription"
ValidationError == Some(Err(BadRequestError(ExtraBodyMessage)))
FileAnswer == responses[1].res

\* C1 as claimed: a present extra_body that is not a JSON object always ends the
\* call with the BadRequestError, and post_with_form is not invoked.
C1_Claimed ==
    (pc = "done" /\ InTranscription /\ Malformed(call.params))
        => (result = ValidationError /\ sent = <<>>)

\* C1 amended: with a present extra_body that is not a JSON object, post_with_form
\* is never invoked during the call, and the call returns the BadRequestError when
\* the file resolved and the resolver's own error when it did not.
C1_MalformedExtraBody ==
    (InTranscription /\ Malformed(call.params))
        => /\ sent = <<>>
           /\ pc # "transcription_post"
           /\ \A i \in 1..Len(trace) : trace[i] # "post_with_form"
           /\ pc = "done" =>
                result = IF IsOk(FileAnswer) THEN ValidationError ELSE Some(FileAnswer)

C1_Witness ==
    /\ pc = "done" /\ InTranscription /\ Malformed(call.params)
    /\ result = ValidationError
    /\ sent = <<>>

\* C2 as claimed: when a malformed extra_body is rejected, the file resolver has
\* not been invoked and no part has been built, and the result is the
\* validation error whatever the resolver would have answered.
C2_Claimed ==
    (pc = "done" /\ InTranscription /\ Malformed(call.params))
        => /\ result = ValidationError
           /\ \A i \in 1..Len(trace) : trace[i] # "into_part"
           /\ form = <<>>

\* C2 amended: a malformed extra_body is rejected after the file resolver has been
\* invoked once and before any transport call; when the file resolved, the parts
\* file, model and the present optional fields have been built by then, and when
\* it did not, the resolver's error is returned and nothing has been built.
C2_ValidationAfterFile ==
    (pc = "done" /\ InTranscription /\ Malformed(call.params))
        => /\ trace = <<"into_part">>
           /\ Len(responses) = 1
           /\ responses[1].from = "into_part"
           /\ IsErr(FileAnswer) => (result = Some(FileAnswer) /\ form = <<>>)
           /\ IsOk(FileAnswer) =>
                /\ result = ValidationError
                /\ Len(form) >= 2
                /\ form[1].name = "file" /\ form[2].name = "model"
                /\ (call.params.prompt # None) <=> (\E i \in 1..Len(form) : form[i].name = "prompt")

C2_Witness ==
    /\ pc = "done" /\ InTranscription /\ Malformed(call.params)
    /\ IsErr(FileAnswer)
    /\ result = Some(FileAnswer)

\* C3 as claimed: a JSON object extra_body with a nested object or an array among
\* its values is rejected with the validation error, no part is emitted for any of
\* its keys and no transport call occurs (stated for calls whose file resolved).
C3_Claimed ==
    (pc = "done" /\ InTranscription /\ HasNonScalar(call.params) /\ IsOk(FileAnswer))
        => /\ result = ValidationError
           /\ sent = <<>>
           /\ \A i \in 3..Len(form) : form[i].name \notin DOMAIN Get(call.params.extra_body)[2]

\* C3 amended: every JSON object extra_body is accepted, nested objects and arrays
\* among its values included: once the file has resolved, each key has a text part
\* carrying the compact JSON text of its value, one multipart POST is dispatched
\* and its answer is the result; the validation error is returned only for an
\* extra_body that is not an object.
C3_AnyObjectAccepted ==
    /\ (InTranscription /\ result = ValidationError) => Malformed(call.params)
    /\ (/\ InTranscription
        /\ pc \in {"transcription_post", "done"}
        /\ call.params.extra_body # None
        /\ IsObject(Get(call.params.extra_body))
        /\ IsOk(FileAnswer))
        => LET map == Get(call.params.extra_body)[2]
           IN /\ Len(sent) = 1
              /\ sent[1].prim = "post_with_form"
              /\ \A k \in DOMAIN map :
                    \E i \in 3..Len(form) :
                        form[i] = TextPart(k, ValueToString(map[k]))
              /\ \A i \in 1..Len(form) :
                    (form[i].name = "k1" /\ map["k1"] = JObj("k1" :> JNum(1)))
                        => form[i].value = "{\"k1\":1}"
              /\ pc = "done" => result = Some(responses[2].res)

C3_Witness ==
    /\ pc = "done" /\ InTranscription /\ HasNonScalar(call.params)
    /\ result = Some(Ok("transcript"))
    /\ \E i \in 1..Len(form) : form[i] = TextPart("k1", "[true,null]")

InMultipart == call.op \in {"create_transcription", "create_translation"}

PartIf(name, values) ==
    IF values = {} THEN <<>> ELSE <<[name |-> name, kind |-> "text", value |-> Get(values)]>>

\* the parts the wire format of spec section 6 lists for the typed fields
ListedParts ==
    LET p == call.params
        head == <<[name |-> "file", kind |-> "binary", value |-> p.file],
                  [name |-> "model", kind |-> "text", value |-> p.model]>>
    IN IF call.op = "create_transcription"
       THEN head \o PartIf("prompt", p.prompt) \o PartIf("language", p.language)
            \o PartIf("chunking_strategy", {"auto" : x \in p.chunking_strategy})
            \o PartIf("response_format", {"verbose_json" : x \in p.response_format})
            \o PartIf("stream", {IF x THEN "true" ELSE "false" : x \in p.stream})
            \o PartIf("temperature", {ToString(x) : x \in p.temperature})
            \o PartIf("timestamp_granularities",
                      {JoinWith([i \in 1..Len(l) |-> IF l[i] = "Word" THEN "word" ELSE "segment"], ",")
                          : l \in p.timestamp_granularities})
       ELSE head \o PartIf("prompt", p.prompt)
            \o PartIf("response_format", {"verbose_json" : x \in p.response_format})
            \o PartIf("temperature", {ToString(x) : x \in p.temperature})

ExtraMap ==
    IF call.op = "create_transcription" /\ call.params.extra_body # None
    THEN Get(call.params.extra_body)[2] ELSE <<>>

\* C9: the body handed to post_with_form consists of the part file, the part
\* model, one text part per present optional field in the order of the code and,
\* for transcription, one text part per extra_body key with the stringified
\* value; an unset field has no part; the body is dispatched exactly once.
C9_MultipartParts ==
    (InMultipart /\ sent # <<>>)
        => LET f == sent[1].body.val
               n == Len(ListedParts)
           IN /\ Len(sent) = 1
              /\ sent[1].prim = "post_with_form"
              /\ sent[1].path = IF call.op = "create_transcription"
                                THEN "/audio/transcriptions" ELSE "/audio/translations"
              /\ Len(f) = n + Cardinality(DOMAIN ExtraMap)
              /\ SubSeq(f, 1, n) = ListedParts
              /\ \A k \in DOMAIN ExtraMap :
                    Cardinality({i \in (n + 1)..Len(f) : f[i].name = k}) = 1
              /\ \A i \in (n + 1)..Len(f) :
                    /\ f[i].kind = "text"
                    /\ f[i].name \in DOMAIN ExtraMap
                    /\ f[i].value = ValueToString(ExtraMap[f[i].name])
              /\ trace = <<"into_part", "post_with_form">>

C9_Witness ==
    /\ pc = "done" /\ call.op = "create_transcription"
    /\ result = Some(Ok("transcript"))
    /\ call.params.timestamp_granularities = Some(<<"Word", "Segment">>)
    /\ call.params.stream = None
    /\ call.params.extra_body = Some(JObj(("k1" :> JStr("x")) @@ ("prompt" :> JNum(7))))
    /\ Len(sent[1].body.val) = 5
    /\ sent[1].body.val[3].value = "word,segment"
    /\ sent[1].body.val[4].value = "\"x\""

----------------------------------------------------------------------------
(* Properties of the speech operations and of the handle *)

InSpeech == call.op = "create_speech"
InStream == call.op = "create_speech_stream"

\* C4 as claimed: every operation ends in an explicit Ok or Err; when
\* post_stream_raw answers with a dispatch-time error, create_speech_stream
\* returns that error as its Err result and does not abort.
C4_Claimed ==
    /\ pc # "panicked"
    /\ (InStream /\ responses # <<>> /\ IsErr(responses[1].res))
        => (pc = "done" /\ result = Some(responses[1].res))

\* C5 as claimed: once the decoded stream has yielded an Err element or has
\* ended, no later pull yields a further element.
C5_Claimed ==
    [][(/\ pc = "streaming" /\ pc' = "streaming"
        /\ (ended \/ \E i \in 1..Len(out) : IsErr(out[i])))
            => out' = out]_vars

\* C5 amended: the decoded stream follows its source: a pull yields one element
\* exactly when the source still has an item, also after an Err element has been
\* yielded, and it ends exactly when the source has ended; only the ended state
\* is terminal.
C5_FollowsSource ==
    [][(pc = "streaming" /\ pc' = "streaming")
            => /\ Len(out') = Len(out) + (IF Len(out) < Len(source) THEN 1 ELSE 0)
               /\ ended' <=> (ended \/ Len(out) = Len(source))
               /\ ended => (out' = out /\ Len(out) = Len(source))]_vars

C5_Witness ==
    /\ pc = "streaming"
    /\ ended
    /\ \E i \in 1..Len(out) : \E j \in (i + 1)..Len(out) : IsErr(out[i]) /\ IsOk(out[j])

\* C6: the elements yielded so far are the element-wise image of the items the
\* source has produced so far, in order: a chunk b as Ok(chunk b), an error e as
\* Err(e); the source has been polled once per yielded element, and when the
\* stream has ended every item of the source has been yielded.
C6_ElementWise ==
    pc = "streaming"
        => /\ Len(out) = srcPos
           /\ srcPos <= Len(source)
           /\ \A i \in 1..Len(out) :
                /\ IsOk(source[i]) => out[i] = Ok([bytes |-> Unwrap(source[i])])
                /\ IsErr(source[i]) => out[i] = Err(UnwrapErr(source[i]))
           /\ ended => Len(out) = Len(source)

C6_Witness ==
    /\ pc = "streaming"
    /\ ended
    /\ source = <<Ok("b1"), Ok("b2"), Err(<<"StreamError", "reset">>)>>
    /\ out = <<Ok([bytes |-> "b1"]), Ok([bytes |-> "b2"]), Err(<<"StreamError", "reset">>)>>

StreamFields == {"model", "input", "voice", "voice_text", "response_format", "speed", "stream"}

C8_StreamBody ==
    (InStream /\ pc # "idle")
        => /\ Len(sent) = 1
           /\ sent[1].prim = "post_stream_raw" /\ sent[1].path = "/audio/speech"
           /\ LET b == sent[1].body.val
                  p == call.params
              IN /\ b.stream = TRUE
                 /\ b.voice_text = None
                 /\ b.model = p.model /\ b.input = p.input /\ b.voice = p.voice
                 /\ b.response_format = p.response_format /\ b.speed = p.speed

C8_Witness ==
    /\ pc = "streaming" /\ InStream
    /\ call.params.voice_text = Some("sample")
    /\ call.params.speed # None
    /\ sent[1].body.val.voice_text = None

\* C10: the converter belongs to one handle and the last write wins: a handle
\* just returned by Client::audio() has none, a handle holds the converter last
\* installed on it, whatever was done to other handles, and create_speech
\* through a handle applies exactly the converter last installed on that handle.
C10_HandleLocalLastWrite ==
    /\ \A h \in Handles :
        /\ lastCfg[h] = "unborn" => h \notin live
        /\ lastCfg[h] = "audio" => (h \in live /\ request_converter[h] = None)
        /\ lastCfg[h] \in Converters => (h \in live /\ request_converter[h] = Some(lastCfg[h]))
    /\ (InSpeech /\ sent # <<>>)
        => sent[1].body =
              IF lastCfg[call.h] \in Converters
              THEN JsonBody(ApplyConverter(lastCfg[call.h], Unwrap(to_value(call.params))))
              ELSE TypedBody(call.params)

C10_Witness ==
    /\ pc = "done" /\ InSpeech
    /\ \E g \in Handles :
        /\ g # call.h
        /\ request_converter[g] = Some("add_marker")
        /\ request_converter[call.h] = None
        /\ sent[1].body = TypedBody(call.params)

====
